---------------------------- MODULE Spec2Model ----------------------------
(***************************************************************************)
(* A model of the scripts of the vall-e-encodec repository:                *)
(*   - sox_data/14effects/main.py and query.py, the paraphrase scripts     *)
(*     (SpecPara);                                                         *)
(*   - the padding and attention-mask helpers of the three trainer         *)
(*     scripts (SpecPad);                                                  *)
(*   - the inference chain of trainer_encodec_vc_inference.py (SpecInfer); *)
(*   - process_data_to_model_inputs of trainer_encodec_se_vc.py (SpecPrep).*)
(* Each specification moves its own variables and leaves the others at     *)
(* their idle values.                                                      *)
(***************************************************************************)
EXTENDS Integers, Sequences, FiniteSets, TLC

VARIABLES
    \* ---- paraphrase scripts (main.py, query.py)
    csv,            \* the rows of prompt_csv
    fs_result,      \* the file result.json: absent, or a dict name -> paraphrases
    fs_responses,   \* responses/<name>.json of main.py: name -> record
    fs_qresponses,  \* <response_root>/<idx>.json of query.py: idx -> record
    result_json,    \* main.py's in-memory dict
    loaded,         \* the dict main.py loaded at start-up (history)
    pc,             \* where the running script is
    row,            \* index of the CSV row (or prompt) being processed
    response,       \* the response of the request in flight
    run,            \* number of runs started so far
    log,            \* this run's events, in order (history)
    reqs,           \* every request issued: <<run, script, key>> (history)
    written_run,    \* key -> the first run that wrote its record, 0 if none (history)
    \* ---- padding helpers
    pad_in,         \* [sequences, max_length, padding_value]
    pad_out,        \* the helpers' results
    pad_pc,
    \* ---- inference (trainer_encodec_vc_inference.py)
    dataset,        \* the selected examples
    layer_list,     \* the list of per-layer tensors (batch x width)
    nar_calls,      \* inputs and layer of each nar_decode call (history)
    encodec_codes,  \* the result of convert_to_encode_code
    inf_pc,
    \* ---- NAR preprocessing (trainer_encodec_se_vc.py)
    batch,          \* the batch handed to process_data_to_model_inputs
    n_level,        \* random.randint(1, 7) of the call
    prep_trace,     \* the kept (example, layer) pairs and the outcome of the length assertions (history)
    prep_out,       \* what it returned
    prep_pc

paraVars == <<csv, fs_result, fs_responses, fs_qresponses, result_json, loaded,
              pc, row, response, run, log, reqs, written_run>>
padVars == <<pad_in, pad_out, pad_pc>>
infVars == <<dataset, layer_list, nar_calls, encodec_codes, inf_pc>>
prepVars == <<batch, n_level, prep_trace, prep_out, prep_pc>>
vars == <<paraVars, padVars, infVars, prepVars>>

\* ------------------------------------------------------------------ common

\* A JSON file holding a dict: absent, or present with its content.
NoFile == [exists |-> FALSE, data |-> [x \in {} |-> 0]]

File(d) == [exists |-> TRUE, data |-> d]
None == "None"

\* Python's [v] * n: the empty list when n <= 0.
Repeat(v, n) == IF n <= 0 THEN <<>> ELSE [k \in 1..n |-> v]

Put(d, k, v) == [x \in DOMAIN d \cup {k} |-> IF x = k THEN v ELSE d[x]]

EmptyDict == [x \in {} |-> 0]

Range(s) == {s[k] : k \in DOMAIN s}

\* --------------------------------------------------------- idle sub-states

ParaIdle ==
    /\ csv = <<>> /\ fs_result = NoFile /\ fs_responses = EmptyDict
    /\ fs_qresponses = EmptyDict /\ result_json = EmptyDict /\ loaded = EmptyDict
    /\ pc = "off" /\ row = 0 /\ response = None /\ run = 0 /\ log = <<>>
    /\ reqs = {} /\ written_run = EmptyDict

PadIdle == pad_in = None /\ pad_out = None /\ pad_pc = "off"

InfIdle ==
    /\ dataset = <<>> /\ layer_list = <<>> /\ nar_calls = <<>>
    /\ encodec_codes = <<>> /\ inf_pc = "off"

PrepIdle ==
    /\ batch = <<>> /\ n_level = 0 /\ prep_trace = <<>> /\ prep_out = <<>>
    /\ prep_pc = "off"


\* ================================================================ SpecPara
\* sox_data/14effects/main.py and query.py

MaxRows == 2        \* rows of the CSV
MaxRuns == 2        \* runs of the scripts in one behaviour
NumPrompts == 1     \* lines of query.py's prompt file

\* Raw CSV names, as character lists; " a " and "a" strip to the same name.
RawNames == {<<"a">>, <<" ", "a", " ">>, <<"b">>}

\* A row of csv.DictReader: Instruction is None when the row is short.
Rows == [name : RawNames, Instruction : {"text", None}]

CsvFiles == UNION {[1..n -> Rows] : n \in 0..MaxRows}

\* What the chat-completion API may answer: two distinct well-formed
\* completions, and one whose content get_instructions_from_response
\* cannot parse.
Responses == {"r1", "r2", "malformed"}

RECURSIVE lstrip(_)
lstrip(s) == IF s # <<>> /\ Head(s) = " " THEN lstrip(Tail(s)) ELSE s

RECURSIVE rstrip(_)
rstrip(s) ==
    IF s # <<>> /\ s[Len(s)] = " " THEN rstrip(SubSeq(s, 1, Len(s) - 1)) ELSE s

\* str.strip()
strip(s) == rstrip(lstrip(s))

\* get_instructions_from_response: raises on a response it cannot parse.
parse_raises(resp) == resp = "malformed"

get_instructions_from_response(resp) == <<"instructions", resp>>

\* json.load(result.json) when the file exists, {} otherwise.
load_result(file) == IF file.exists THEN file.data ELSE EmptyDict

\* Mutant: the membership test never succeeds.
cached_mutant(name, d) == FALSE

\* `if name in result_json: continue`

cached(name, d) == name \in DOMAIN d

\* Mutant: handle_query returns before the record is complete.
record_mutant(messages, resp) ==
    [request |-> messages, response |-> None, complete |-> FALSE]

\* The record handle_query dumps to result_path.
record(messages, resp) == [request |-> messages, response |-> resp, complete |-> TRUE]

\* open(result_path, 'w+') succeeded and json.dump failed part-way.
partial_record == [request |-> None, response |-> None, complete |-> FALSE]

first_write(w, key) == IF key \in DOMAIN w /\ w[key] # 0 THEN w[key] ELSE run

Event(r, n, e, v) == [row |-> r, name |-> n, ev |-> e, value |-> v]

curName == strip(csv[row].name)

\* Mutants of the handler: one that exits without the dump, one that goes
\* back to the row instead of exiting.
dump_and_exit_retry(d) == pc' = "loop" /\ UNCHANGED fs_result

dump_and_exit_mutant(d) == pc' = "exited" /\ UNCHANGED fs_result

\* The bare `except:` of main: dump result_json to result.json, exit(0).
dump_and_exit(d) == pc' = "exited" /\ fs_result' = File(d)

\* Mutant: the final dump writes only the entries that were not loaded.
next_row_mutant(d, r) ==
    /\ row' = r
    /\ IF r > Len(csv)
         THEN /\ pc' = "done"
              /\ fs_result' = File([n \in DOMAIN d \ DOMAIN loaded |-> d[n]])
         ELSE pc' = "loop" /\ UNCHANGED fs_result

\* After a row: the next row, or the end of the loop and the final dump.
next_row(d, r) ==
    /\ row' = r
    /\ IF r > Len(csv)
         THEN pc' = "done" /\ fs_result' = File(d)
         ELSE pc' = "loop" /\ UNCHANGED fs_result

\* The paraphrase scripts touch nothing else.
ParaOnly == UNCHANGED <<padVars, infVars, prepVars>>

\* main(args) up to the first row: makedirs, load result.json, open the CSV.
StartMain ==
    /\ pc \in {"off", "done", "exited", "qdone", "qcrashed"}
    /\ run < MaxRuns
    /\ run' = run + 1
    /\ result_json' = load_result(fs_result)
    /\ loaded' = load_result(fs_result)
    /\ log' = <<>>
    /\ response' = None
    /\ next_row(load_result(fs_result), 1)
    /\ UNCHANGED <<csv, fs_responses, fs_qresponses, reqs, written_run>>
    /\ ParaOnly

\* A row whose stripped name is already a key of result_json.
SkipRow ==
    /\ pc = "loop"
    /\ cached(curName, result_json)
    /\ log' = Append(log, Event(row, curName, "skip", None))
    /\ next_row(result_json, row + 1)
    /\ UNCHANGED <<csv, fs_responses, fs_qresponses, result_json, loaded,
                   response, run, reqs, written_run>>
    /\ ParaOnly

\* row['Instruction'].strip() on a short row raises.
BadRow ==
    /\ pc = "loop"
    /\ ~cached(curName, result_json)
    /\ csv[row].Instruction = None
    /\ log' = Append(log, Event(row, curName, "row_fail", None))
    /\ dump_and_exit(result_json)
    /\ UNCHANGED <<csv, fs_responses, fs_qresponses, result_json, loaded,
                   row, response, run, reqs, written_run>>
    /\ ParaOnly

\* handle_query -> query: the chat-completion request goes out.
IssueRequest ==
    /\ pc = "loop"
    /\ ~cached(curName, result_json)
    /\ csv[row].Instruction # None
    /\ pc' = "query"
    /\ reqs' = reqs \cup {<<run, "main", curName>>}
    /\ log' = Append(log, Event(row, curName, "request", None))
    /\ UNCHANGED <<csv, fs_result, fs_responses, fs_qresponses, result_json,
                   loaded, row, response, run, written_run>>
    /\ ParaOnly

\* openai.ChatCompletion.create returns.
RequestReturns ==
    /\ pc = "query"
    /\ \E resp \in Responses : response' = resp
    /\ pc' = "write"
    /\ UNCHANGED <<csv, fs_result, fs_responses, fs_qresponses, result_json,
                   loaded, row, run, log, reqs, written_run>>
    /\ ParaOnly

\* openai.ChatCompletion.create raises (rate limit, network, ...).
RequestRaises ==
    /\ pc = "query"
    /\ log' = Append(log, Event(row, curName, "req_fail", None))
    /\ dump_and_exit(result_json)
    /\ UNCHANGED <<csv, fs_responses, fs_qresponses, result_json, loaded,
                   row, response, run, reqs, written_run>>
    /\ ParaOnly

\* handle_query writes responses/<name>.json and returns the response.
WriteRecord ==
    /\ pc = "write"
    /\ fs_responses' = Put(fs_responses, curName, record(curName, response))
    /\ written_run' = Put(written_run, <<"main", curName>>,
                          first_write(written_run, <<"main", curName>>))
    /\ log' = Append(log, Event(row, curName, "written", None))
    /\ pc' = "parse"
    /\ UNCHANGED <<csv, fs_result, fs_qresponses, result_json, loaded, row,
                   response, run, reqs>>
    /\ ParaOnly

\* The write of the record raises: open failed, or json.dump failed after
\* open had created (or truncated) the file.
WriteRaises ==
    /\ pc = "write"
    /\ \/ UNCHANGED fs_responses
       \/ fs_responses' = Put(fs_responses, curName, partial_record)
    /\ log' = Append(log, Event(row, curName, "write_fail", None))
    /\ dump_and_exit(result_json)
    /\ UNCHANGED <<csv, fs_qresponses, result_json, loaded, row, response,
                   run, reqs, written_run>>
    /\ ParaOnly

\* result_json[name] = get_instructions_from_response(response)
StoreResult ==
    /\ pc = "parse"
    /\ ~parse_raises(response)
    /\ result_json' = Put(result_json, curName,
                          get_instructions_from_response(response))
    /\ log' = Append(log, Event(row, curName, "stored",
                                get_instructions_from_response(response)))
    /\ next_row(result_json', row + 1)
    /\ UNCHANGED <<csv, fs_responses, fs_qresponses, loaded, response, run,
                   reqs, written_run>>
    /\ ParaOnly

\* get_instructions_from_response raises.
ParseRaises ==
    /\ pc = "parse"
    /\ parse_raises(response)
    /\ log' = Append(log, Event(row, curName, "parse_fail", None))
    /\ dump_and_exit(result_json)
    /\ UNCHANGED <<csv, fs_responses, fs_qresponses, result_json, loaded,
                   row, response, run, reqs, written_run>>
    /\ ParaOnly

\* ---- query.py: main(args), one prompt per line, records keyed by index.

q_next(i) == row' = i /\ pc' = IF i >= NumPrompts THEN "qdone" ELSE "qloop"

StartQuery ==
    /\ pc \in {"off", "done", "exited", "qdone", "qcrashed"}
    /\ run < MaxRuns
    /\ run' = run + 1
    /\ log' = <<>>
    /\ response' = None
    /\ q_next(0)
    /\ UNCHANGED <<csv, fs_result, fs_responses, fs_qresponses, result_json,
                   loaded, reqs, written_run>>
    /\ ParaOnly

\* `if os.path.isfile(result_path): continue`
QuerySkip ==
    /\ pc = "qloop"
    /\ row \in DOMAIN fs_qresponses
    /\ log' = Append(log, Event(row, row, "skip", None))
    /\ q_next(row + 1)
    /\ UNCHANGED <<csv, fs_result, fs_responses, fs_qresponses, result_json,
                   loaded, response, run, reqs, written_run>>
    /\ ParaOnly

QueryIssue ==
    /\ pc = "qloop"
    /\ row \notin DOMAIN fs_qresponses
    /\ pc' = "qquery"
    /\ reqs' = reqs \cup {<<run, "query", row>>}
    /\ log' = Append(log, Event(row, row, "request", None))
    /\ UNCHANGED <<csv, fs_result, fs_responses, fs_qresponses, result_json,
                   loaded, row, response, run, written_run>>
    /\ ParaOnly

QueryReturns ==
    /\ pc = "qquery"
    /\ \E resp \in Responses : response' = resp
    /\ pc' = "qwrite"
    /\ UNCHANGED <<csv, fs_result, fs_responses, fs_qresponses, result_json,
                   loaded, row, run, log, reqs, written_run>>
    /\ ParaOnly

\* No handler in query.py: the exception ends the script.
QueryRaises ==
    /\ pc = "qquery"
    /\ pc' = "qcrashed"
    /\ log' = Append(log, Event(row, row, "req_fail", None))
    /\ UNCHANGED <<csv, fs_result, fs_responses, fs_qresponses, result_json,
                   loaded, row, response, run, reqs, written_run>>
    /\ ParaOnly

QueryWrite ==
    /\ pc = "qwrite"
    /\ fs_qresponses' = Put(fs_qresponses, row, record(row, response))
    /\ written_run' = Put(written_run, <<"query", row>>,
                          first_write(written_run, <<"query", row>>))
    /\ log' = Append(log, Event(row, row, "written", None))
    /\ q_next(row + 1)
    /\ UNCHANGED <<csv, fs_result, fs_responses, result_json, loaded,
                   response, run, reqs>>
    /\ ParaOnly

QueryWriteRaises ==
    /\ pc = "qwrite"
    /\ \/ UNCHANGED fs_qresponses
       \/ fs_qresponses' = Put(fs_qresponses, row, partial_record)
    /\ pc' = "qcrashed"
    /\ log' = Append(log, Event(row, row, "write_fail", None))
    /\ UNCHANGED <<csv, fs_result, fs_responses, result_json, loaded, row,
                   response, run, reqs, written_run>>
    /\ ParaOnly

InitPara ==
    /\ csv \in CsvFiles
    /\ fs_result = NoFile /\ fs_responses = EmptyDict
    /\ fs_qresponses = EmptyDict /\ result_json = EmptyDict /\ loaded = EmptyDict
    /\ pc = "off" /\ row = 0 /\ response = None /\ run = 0 /\ log = <<>>
    /\ reqs = {} /\ written_run = EmptyDict
    /\ PadIdle /\ InfIdle /\ PrepIdle

NextPara ==
    \/ StartMain \/ SkipRow \/ BadRow \/ IssueRequest \/ RequestReturns
    \/ RequestRaises \/ WriteRecord \/ WriteRaises \/ StoreResult
    \/ ParseRaises \/ StartQuery \/ QuerySkip \/ QueryIssue
    \/ QueryReturns \/ QueryRaises \/ QueryWrite \/ QueryWriteRaises

SpecPara == InitPara /\ [][NextPara]_vars

\* ---- claims about the paraphrase scripts

MainPcs == {"loop", "query", "write", "parse", "done", "exited"}

FailEvents == {"row_fail", "req_fail", "write_fail", "parse_fail"}

Events(kind) == {i \in DOMAIN log : log[i].ev = kind}

\* The entries a run has accumulated: those loaded, and one per stored row.
Accumulated ==
    LET stored == {log[i].name : i \in Events("stored")}
        last(n) == CHOOSE i \in Events("stored") :
                       /\ log[i].name = n
                       /\ \A j \in Events("stored") : log[j].name = n => j <= i
    IN  [n \in DOMAIN loaded \cup stored |->
            IF n \in stored THEN log[last(n)].value ELSE loaded[n]]

\* C1: in a run of main.py, a CSV row whose stripped name is a key of the
\* result.json loaded at start-up gets no request, and its entry stays what
\* was loaded, in memory and in the result.json the run writes.
C1_ResumeSkipsCached ==
    pc \in MainPcs =>
        \A i \in DOMAIN csv :
            LET n == strip(csv[i].name) IN
            n \in DOMAIN loaded =>
                /\ \A k \in Events("request") : log[k].name # n
                /\ n \in DOMAIN result_json /\ result_json[n] = loaded[n]
                /\ pc \in {"done", "exited"} =>
                       /\ n \in DOMAIN fs_result.data
                       /\ fs_result.data[n] = loaded[n]

\* A second run that ended after skipping a loaded name and storing a new one.
C1_Witness ==
    /\ pc = "done" /\ run = 2
    /\ \E k \in Events("skip") : log[k].name \in DOMAIN loaded
    /\ Events("stored") # {}

\* C2: when a row fails, result.json holds exactly the loaded entries plus
\* one entry per row stored before the failure, nothing for the failing
\* row, and no event of the run belongs to a later row.
C2_FailureDumpsAndExits ==
    pc = "exited" =>
        /\ log # <<>>
        /\ LET f == log[Len(log)] IN
            /\ f.ev \in FailEvents
            /\ fs_result = File(Accumulated)
            /\ f.name \notin DOMAIN fs_result.data
            /\ \A k \in DOMAIN log : log[k].row <= f.row
            /\ \A k \in DOMAIN log : log[k].ev \in FailEvents => k = Len(log)

\* A run that stored a row and then failed while parsing a later response.
C2_Witness ==
    /\ pc = "exited"
    /\ Events("stored") # {}
    /\ log[Len(log)].ev = "parse_fail"
    /\ fs_result.exists /\ DOMAIN fs_result.data # {}

\* C3: within one run no name is requested twice.
C3_NoRetry ==
    \A i, j \in Events("request") : log[i].name = log[j].name => i = j

\* A finished run whose CSV repeats a name: requested once, skipped after.
C3_Witness ==
    /\ pc = "done"
    /\ \E i \in Events("request") : \E j \in Events("skip") :
           i < j /\ log[i].name = log[j].name /\ log[i].row < log[j].row

\* C4: once the record of a request has been written, no later run issues
\* the request for that name again.
C4_RecordPreventsReissue ==
    \A q \in reqs :
        LET key == <<q[2], q[3]>> IN
        key \in DOMAIN written_run => q[1] <= written_run[key]

\* The case C4 is about: a record exists and a later run meets its row.
C4_Witness ==
    /\ pc = "query" /\ run = 2
    /\ <<"main", curName>> \in DOMAIN written_run
    /\ written_run[<<"main", curName>>] = 1

\* The request events of the run that no later event has resolved.
Outstanding ==
    {i \in Events("request") :
        \A j \in DOMAIN log :
            j > i => ~(log[j].row = log[i].row
                       /\ log[j].ev \in {"written", "req_fail", "write_fail"})}

\* C11: main.py's loop is call-and-wait in CSV order: at most one request is
\* outstanding, and only while the script is inside handle_query; requests
\* go out in increasing row order; an entry is stored only directly after
\* the record of that row's request was written, and the record on disk is
\* the complete one whose response the entry was parsed from.
C11_CallAndWait ==
    pc \in MainPcs =>
        /\ Cardinality(Outstanding) <= 1
        /\ Outstanding # {} <=> pc \in {"query", "write"}
        /\ \A i, j \in Events("request") : i < j => log[i].row < log[j].row
        /\ \A i \in Events("request") :
               i < Len(log) =>
                   /\ log[i + 1].row = log[i].row
                   /\ log[i + 1].ev \in {"written", "req_fail", "write_fail"}
        /\ \A s \in Events("stored") :
               /\ s >= 3
               /\ log[s - 1].ev = "written" /\ log[s - 1].row = log[s].row
               /\ log[s - 2].ev = "request" /\ log[s - 2].row = log[s].row
               /\ log[s].name \in DOMAIN fs_responses
               /\ fs_responses[log[s].name].complete
               /\ log[s].value =
                      get_instructions_from_response(
                          fs_responses[log[s].name].response)

\* A finished run that requested and stored two rows, one after the other.
C11_Witness ==
    /\ pc = "done"
    /\ Cardinality(Events("stored")) = 2
    /\ \E i, j \in Events("request") : log[i].row = 1 /\ log[j].row = 2

\* C12: when main.py ends without a failure, result.json has an entry for
\* every stripped name of the CSV, and every entry loaded at start-up is in
\* it with the value it had.
C12_FinalResultComplete ==
    pc = "done" =>
        /\ fs_result.exists
        /\ fs_result.data = result_json
        /\ \A i \in DOMAIN csv : strip(csv[i].name) \in DOMAIN fs_result.data
        /\ \A n \in DOMAIN loaded :
               n \in DOMAIN fs_result.data /\ fs_result.data[n] = loaded[n]

\* A second run over two rows that ended without a failure: it started from
\* a loaded entry and wrote a result.json with a further one.
C12_Witness ==
    /\ pc = "done" /\ run = 2
    /\ DOMAIN loaded # {}
    /\ DOMAIN fs_result.data # DOMAIN loaded
    /\ Len(csv) = 2


\* ================================================================= SpecPad
\* The padding and attention-mask helpers of the three trainer scripts,
\* applied to inputs drawn from bounded sets.

MaxSeqs == 1        \* sequences per call
MaxSeqLen == 3      \* elements per sequence
MaxPadLength == 3   \* the max_length argument

\* Token ids: the tokenizer's pad token id, and another id.
PadTokens == {1, 5}

\* The padding values the scripts pass: pad_token_id, and -100 for labels.
PaddingValues == {1, -100}

SeqsUpTo(S, n) == UNION {[1..k -> S] : k \in 0..n}

\* Mutant: the padded sequence is cut to max_length.
pad_one_truncating(sequence, max_length, padding_value) ==
    SubSeq(sequence \o Repeat(padding_value, max_length - Len(sequence)),
           1, max_length)

\* Mutant: one padding element too few.
pad_one_mutant(sequence, max_length, padding_value) ==
    sequence \o Repeat(padding_value, max_length - Len(sequence) - 1)

\* sequence + [padding_value] * (max_length - len(sequence))
pad_one(sequence, max_length, padding_value) ==
    sequence \o Repeat(padding_value, max_length - Len(sequence))

\* trainer_encodec_tts_nar_full.py
pad_sequences_tts(sequences, max_length, padding_value) ==
    [i \in DOMAIN sequences |-> pad_one(sequences[i], max_length, padding_value)]

get_attention_mask_tts(sequence, max_length) ==
    Repeat(1, Len(sequence)) \o Repeat(0, max_length - Len(sequence))

\* trainer_encodec_vc_inference.py
pad_sequences_vc(sequences, max_length, padding_value) ==
    [i \in DOMAIN sequences |-> pad_one(sequences[i], max_length, padding_value)]

get_attention_mask_vc(seq_length, max_length) ==
    Repeat(1, seq_length) \o Repeat(0, max_length - seq_length)

\* trainer_encodec_se_vc.py: the mask is computed from the padded values.
pad_sequences_and_create_masks(sequences, max_length, padding_value) ==
    LET padded_sequences ==
            [i \in DOMAIN sequences |->
                pad_one(sequences[i], max_length, padding_value)]
        attention_masks ==
            [i \in DOMAIN sequences |->
                [k \in DOMAIN padded_sequences[i] |->
                    IF padded_sequences[i][k] # padding_value THEN 1 ELSE 0]]
    IN  <<padded_sequences, attention_masks>>

Unset == [done |-> FALSE, padded |-> <<>>, masks |-> <<>>]

PadOnly == UNCHANGED <<paraVars, infVars, prepVars>>

ApplySeVc ==
    /\ pad_pc = "ready" /\ ~pad_out.se_vc.done
    /\ LET r == pad_sequences_and_create_masks(pad_in.sequences,
                    pad_in.max_length, pad_in.padding_value)
       IN  pad_out' = [pad_out EXCEPT
                         !.se_vc = [done |-> TRUE, padded |-> r[1], masks |-> r[2]]]
    /\ UNCHANGED <<pad_in, pad_pc>>
    /\ PadOnly

ApplyTts ==
    /\ pad_pc = "ready" /\ ~pad_out.tts.done
    /\ pad_out' = [pad_out EXCEPT !.tts =
          [done |-> TRUE,
           padded |-> pad_sequences_tts(pad_in.sequences, pad_in.max_length,
                                        pad_in.padding_value),
           masks |-> [i \in DOMAIN pad_in.sequences |->
                        get_attention_mask_tts(pad_in.sequences[i],
                                               pad_in.max_length)]]]
    /\ UNCHANGED <<pad_in, pad_pc>>
    /\ PadOnly

ApplyVc ==
    /\ pad_pc = "ready" /\ ~pad_out.vc.done
    /\ pad_out' = [pad_out EXCEPT !.vc =
          [done |-> TRUE,
           padded |-> pad_sequences_vc(pad_in.sequences, pad_in.max_length,
                                       pad_in.padding_value),
           masks |-> [i \in DOMAIN pad_in.sequences |->
                        get_attention_mask_vc(Len(pad_in.sequences[i]),
                                              pad_in.max_length)]]]
    /\ UNCHANGED <<pad_in, pad_pc>>
    /\ PadOnly

InitPad ==
    /\ pad_in \in [sequences : SeqsUpTo(SeqsUpTo(PadTokens, MaxSeqLen), MaxSeqs),
                   max_length : 0..MaxPadLength,
                   padding_value : PaddingValues]
    /\ pad_out = [se_vc |-> Unset, tts |-> Unset, vc |-> Unset]
    /\ pad_pc = "ready"
    /\ ParaIdle /\ InfIdle /\ PrepIdle

NextPad == ApplySeVc \/ ApplyTts \/ ApplyVc

SpecPad == InitPad /\ [][NextPad]_vars

\* ---- claims about the padding helpers

Helpers == {"se_vc", "tts", "vc"}

Ones(mask) == Cardinality({k \in DOMAIN mask : mask[k] = 1})

ShortSeqs ==
    {i \in DOMAIN pad_in.sequences :
        Len(pad_in.sequences[i]) < pad_in.max_length}

\* C5: every helper pads a sequence shorter than max_length to exactly
\* max_length elements.
C5_PaddedLength ==
    pad_pc = "ready" =>
        \A h \in Helpers : pad_out[h].done =>
            \A i \in ShortSeqs : Len(pad_out[h].padded[i]) = pad_in.max_length

\* All three helpers have padded a non-empty sequence shorter than max_length.
C5_Witness ==
    /\ pad_pc = "ready"
    /\ \A h \in Helpers : pad_out[h].done
    /\ \E i \in ShortSeqs : Len(pad_in.sequences[i]) > 0

\* C6: for a sequence shorter than max_length the attention mask has as
\* many ones as the sequence has elements, and zeros elsewhere, whatever the
\* sequence holds.
C6_MaskCountsLength ==
    pad_pc = "ready" =>
        \A h \in Helpers : pad_out[h].done =>
            \A i \in ShortSeqs :
                /\ Len(pad_out[h].masks[i]) = pad_in.max_length
                /\ Ones(pad_out[h].masks[i]) = Len(pad_in.sequences[i])
                /\ \A k \in DOMAIN pad_out[h].masks[i] :
                       pad_out[h].masks[i][k] \in {0, 1}

\* The case C6 is about: masks built for a short, non-empty sequence.
C6_Witness ==
    /\ pad_pc = "ready"
    /\ \A h \in Helpers : pad_out[h].done
    /\ \E i \in ShortSeqs : Len(pad_in.sequences[i]) > 0

\* C17: every helper returns the input sequence followed only by
\* padding_value; a sequence longer than max_length comes back unchanged,
\* and the output is at most max_length long exactly when the input was.
C17_OnlyAppends ==
    pad_pc = "ready" =>
        \A h \in Helpers : pad_out[h].done =>
            /\ DOMAIN pad_out[h].padded = DOMAIN pad_in.sequences
            /\ \A i \in DOMAIN pad_in.sequences :
                   LET seq == pad_in.sequences[i]
                       out == pad_out[h].padded[i]
                   IN  /\ Len(out) >= Len(seq)
                       /\ SubSeq(out, 1, Len(seq)) = seq
                       /\ \A k \in (Len(seq) + 1)..Len(out) :
                              out[k] = pad_in.padding_value
                       /\ Len(seq) > pad_in.max_length => out = seq
                       /\ Len(out) <= pad_in.max_length
                              <=> Len(seq) <= pad_in.max_length

\* All three helpers were given a sequence longer than max_length.
C17_Witness ==
    /\ pad_pc = "ready"
    /\ \A h \in Helpers : pad_out[h].done
    /\ pad_in.max_length >= 1
    /\ \E i \in DOMAIN pad_in.sequences :
           /\ Len(pad_in.sequences[i]) > pad_in.max_length
           /\ \A h \in Helpers : Len(pad_out[h].padded[i]) > pad_in.max_length


\* =============================================================== SpecInfer
\* trainer_encodec_vc_inference.py: ground_truth_only, cascade_ar_nar,
\* nar_model_only, convert_to_encode_code.

CodebookSize == 2   \* stands for the 1024 codes of one codec layer
VTokBase == 7       \* first id of the v_tok_ tokens; the ids from TextToken up to it are text
MaxLength == 6      \* stands for max_length=1024 of pack_inputs and generate
SrcLimit == 3       \* stands for the 700 of main's dataset.filter
NumSelected == 2    \* stands for the 5 of main's select(range(5))
NumLayers == 8      \* codec layers: range(8), range(1, 8)

\* ---- the tokenizer (BART special ids; v_tok_0 .. v_tok_{8*1024} in order)
bos_token_id == 0
pad_token_id == 1
eos_token_id == 2
unk_token_id == 3
sep_token_id == 2
TextToken == 4

\* v_tok_k exists for the 8 layers and for the upper end of layer 7's range.
NumVTok == NumLayers * CodebookSize + 1

VocabSize == VTokBase + NumVTok

\* tokenizer.convert_tokens_to_ids(f"v_tok_{k}")
convert_tokens_to_ids(k) ==
    IF k \in 0..(NumVTok - 1) THEN VTokBase + k ELSE unk_token_id

\* tokenizer(text)["input_ids"]: <s> ... </s> around the text's ids
tokenizer_input_ids(text_ids) == <<bos_token_id>> \o text_ids \o <<eos_token_id>>

\* ids[1 : -1]
strip_ends(ids) == SubSeq(ids, 2, Len(ids) - 1)

\* ---- the dataset: codes of layer l differ from layer to layer
Codes(n, c, l) == [j \in 1..n |-> (c + l + j) % CodebookSize]

Example(ilen, tlen, n, c) ==
    [instruction |-> Repeat(TextToken, ilen),
     transcription |-> Repeat(TextToken, tlen),
     src_encodec |-> [l \in 0..(NumLayers - 1) |-> IF n = 0 THEN <<>> ELSE Codes(n, c, l)],
     tgt_encodec |-> [l \in 0..(NumLayers - 1) |-> IF n = 0 THEN <<>> ELSE Codes(n, c + 1, 2 * l)]]

\* What load_dataset may hand to main, in the order shuffle leaves the
\* examples in: examples that fit max_length with an example of too many
\* source codes among them; one whose first example has a long instruction;
\* one whose examples all have.
RawDatasets ==
    { <<Example(1, 0, 1, 0), Example(0, 0, SrcLimit + 1, 0), Example(0, 0, 2, 1),
        Example(0, 1, 1, 1), Example(0, 0, 1, 0)>>,
      <<Example(0, 1, 1, 1), Example(0, 0, 2, 0), Example(1, 0, 1, 1),
        Example(0, 0, 1, 1)>>,
      <<Example(MaxLength - 3, 1, 1, 0), Example(0, 0, 1, 0), Example(0, 0, 1, 1),
        Example(0, 0, 2, 1)>>,
      <<Example(MaxLength - 3, 1, 1, 0), Example(MaxLength - 3, 1, 1, 1),
        Example(MaxLength - 3, 1, 1, 0), Example(MaxLength - 3, 1, 1, 1)>> }

\* dataset.filter(lambda x : len(x["src_encodec_0"]) <= 700)
dataset_filter(ds) ==
    LET keep(ex) == Len(ex.src_encodec[0]) <= SrcLimit IN SelectSeq(ds, keep)

\* dataset.select(range(5))
dataset_select(ds) == SubSeq(ds, 1, NumSelected)

\* The datasets the modes run on.
Datasets == {dataset_select(dataset_filter(ds)) : ds \in RawDatasets}

\* ---- pack_inputs

\* [u for u in prev_encodec_ids if u != pad_token_id]
RECURSIVE remove_pad(_)
remove_pad(ids) ==
    IF ids = <<>> THEN <<>>
    ELSE IF Head(ids) = pad_token_id THEN remove_pad(Tail(ids))
    ELSE <<Head(ids)>> \o remove_pad(Tail(ids))

encoder_input_ids(instruction_ids, transcription_ids, encodec_ids) ==
    <<bos_token_id>> \o instruction_ids \o <<sep_token_id>>
        \o transcription_ids \o <<sep_token_id>>
        \o encodec_ids \o <<eos_token_id>>

\* torch.tensor(rows) raises on rows of different lengths.
tensor_raises(rows) ==
    \E i, j \in DOMAIN rows : Len(rows[i]) # Len(rows[j])

\* The shortest of three lengths: zip stops there.
Min3(a, b, c) ==
    IF a <= b /\ a <= c THEN a ELSE IF b <= c THEN b ELSE c

\* Mutant: the decoder input is the first layer, not the last one decoded.
prev_layer_mutant(layers) == layers[1]

\* layer_list[-1]
prev_layer(layers) == layers[Len(layers)]

pack_inputs(instruction_ids_list, transcription_ids_list, encodec_ids_list, prev_encodec_ids_list, max_length, mode) ==
    LET n == Min3(Len(instruction_ids_list), Len(transcription_ids_list),
                  Len(encodec_ids_list))
        ids == [i \in 1..n |->
                   encoder_input_ids(instruction_ids_list[i],
                                     transcription_ids_list[i],
                                     encodec_ids_list[i])]
        dec == IF mode = "nar"
               THEN [i \in 1..n |-> remove_pad(prev_encodec_ids_list[i])]
               ELSE <<>>
        input_ids == pad_sequences_vc(ids, max_length, pad_token_id)
        decoder_input_ids == pad_sequences_vc(dec, max_length, pad_token_id)
    IN  [input_ids |-> input_ids,
         attention_mask |->
             [i \in 1..n |-> get_attention_mask_vc(Len(ids[i]), max_length)],
         decoder_input_ids |-> decoder_input_ids,
         decoder_attention_mask |->
             [i \in DOMAIN dec |-> get_attention_mask_vc(Len(dec[i]), max_length)],
         raised |-> \/ tensor_raises(input_ids)
                    \/ tensor_raises([i \in 1..n |->
                           get_attention_mask_vc(Len(ids[i]), max_length)])
                    \/ tensor_raises(decoder_input_ids)]

\* ---- nar_decode

NegInf == -1        \* float("-inf"): below every other logit value

\* What model.forward may return for one position: a vector over the
\* vocabulary, of one of three shapes; the calls of one run share a shape.
\*   "in":  a peak inside the layer's range, moving with the position;
\*   "out": every id outside the range above every id inside it;
\*   "neg": like "in", but at the first position every id of the range is
\*          -inf (a float tensor may hold -inf: half-precision overflow, a
\*          logits bias of -inf on these ids).
LogitChoices == {"in", "out", "neg"}

id_range_start(layer) == convert_tokens_to_ids(0 + CodebookSize * layer)

id_range_end(layer) == convert_tokens_to_ids(CodebookSize + CodebookSize * layer)

InRange(i, layer) == i >= id_range_start(layer) /\ i < id_range_end(layer)

Logits(c, layer, b, p) ==
    LET peak == id_range_start(layer) + ((b + p) % CodebookSize) IN
    [i \in 0..(VocabSize - 1) |->
        CASE c = "out" ->
                 IF ~InRange(i, layer) THEN 3
                 ELSE IF i = id_range_end(layer) - 1 THEN 1 ELSE 0
          [] c = "neg" /\ p = 1 ->
                 IF InRange(i, layer) THEN NegInf ELSE 1
          [] OTHER -> IF i = peak THEN 2 ELSE 1]

\* torch.where(mask, decode_nar, -inf)
masked(decode_nar, layer) ==
    [i \in DOMAIN decode_nar |->
        IF InRange(i, layer) THEN decode_nar[i] ELSE NegInf]

\* torch.argmax: the first index of the greatest value
argmax(v) ==
    LET vals == {v[j] : j \in DOMAIN v}
        top == CHOOSE x \in vals : \A y \in vals : y <= x
    IN  CHOOSE i \in DOMAIN v :
            v[i] = top /\ \A j \in DOMAIN v : j < i => v[j] # top

\* nar_decode over a batch: one id per row and position
nar_decode(c, inputs, layer) ==
    [b \in DOMAIN inputs.decoder_input_ids |->
        [p \in DOMAIN inputs.decoder_input_ids[b] |->
            argmax(masked(Logits(c, layer, b, p), layer))]]

\* ---- ar_model.generate

\* bad_words_ids: the v_tok_ tokens of layers 1..7
bad_words_ids ==
    {convert_tokens_to_ids(i) : i \in CodebookSize..(CodebookSize * NumLayers - 1)}

\* The tokens generate may sample (do_sample=True) inside a row: every id
\* of the vocabulary that is not a bad word; sampling </s> ends the row.
ArTokens == (0..(VocabSize - 1)) \ (bad_words_ids \cup {eos_token_id})

\* The bodies generate may sample for the first example: a token repeated
\* up to max_length - 2 times, or any two tokens.
ArBodies(max_length) ==
    {Repeat(t, n) : t \in ArTokens, n \in 0..(max_length - 2)}
        \cup {<<t, u>> : t \in ArTokens, u \in ArTokens}

\* One generated row: </s> <s> body, then </s> unless max_length cut it.
ar_row(body, max_length) ==
    <<eos_token_id, bos_token_id>> \o body
        \o (IF Len(body) + 2 < max_length THEN <<eos_token_id>> ELSE <<>>)

Max(S) == CHOOSE x \in S : \A y \in S : y <= x

\* generate over the batch: example b's body is the first one's without
\* its last 2*(b-1) tokens, and shorter rows are padded to the longest.
generate(body, size, max_length) ==
    LET rows == [b \in 1..size |->
                    ar_row(SubSeq(body, 1, Len(body) - 2 * (b - 1)), max_length)]
        width == Max({Len(rows[b]) : b \in 1..size})
    IN  pad_sequences_vc(rows, width, pad_token_id)

\* decode_ar[:, 2:-1]
slice_2_m1(t) == [b \in DOMAIN t |-> SubSeq(t[b], 3, Len(t[b]) - 1)]

instruction_ids_list(ds) ==
    [b \in DOMAIN ds |-> strip_ends(tokenizer_input_ids(ds[b].instruction))]

transcription_ids_list(ds) ==
    [b \in DOMAIN ds |-> strip_ends(tokenizer_input_ids(ds[b].transcription))]

\* convert_tokens_to_ids([f"v_tok_{u + layer * 1024}" for u in src])
src_encodec_ids_list(ds, layer) ==
    [b \in DOMAIN ds |->
        [j \in DOMAIN ds[b].src_encodec[layer] |->
            convert_tokens_to_ids(ds[b].src_encodec[layer][j]
                                  + layer * CodebookSize)]]

\* A row of the encoder input is longer than max_length, the number of
\* positions the pretrained models were built with: generate and forward
\* (library code) may then fail instead of returning.
exceeds_positions(inputs, max_length) ==
    \E i \in DOMAIN inputs.input_ids : Len(inputs.input_ids[i]) > max_length

InfOnly == UNCHANGED <<paraVars, padVars, prepVars>>

\* cascade_ar_nar up to the AR prediction: layer 0 is decode_ar[:, 2:-1].
CascadeAR ==
    /\ inf_pc = "start"
    /\ LET inputs == pack_inputs(instruction_ids_list(dataset),
                                 transcription_ids_list(dataset),
                                 src_encodec_ids_list(dataset, 0),
                                 <<>>, MaxLength, "ar")
       IN  \/ /\ inputs.raised
              /\ inf_pc' = "pack_raised"
              /\ UNCHANGED layer_list
           \/ /\ ~inputs.raised
              /\ exceeds_positions(inputs, MaxLength)
              /\ inf_pc' = "model_raised"
              /\ UNCHANGED layer_list
           \/ /\ ~inputs.raised
              /\ \E body \in ArBodies(MaxLength) :
                     layer_list' =
                         <<slice_2_m1(generate(body, Len(dataset), MaxLength))>>
              /\ inf_pc' = "cascade"
    /\ UNCHANGED <<dataset, nar_calls, encodec_codes>>
    /\ InfOnly

\* One iteration of `for layer in range(1, 8)`, and the return after the last.
NarStep ==
    /\ inf_pc = "cascade"
    /\ LET layer == Len(layer_list)
           inputs == pack_inputs(instruction_ids_list(dataset),
                                 transcription_ids_list(dataset),
                                 src_encodec_ids_list(dataset, layer),
                                 prev_layer(layer_list), MaxLength, "nar")
       IN  \/ /\ inputs.raised \/ exceeds_positions(inputs, MaxLength)
              /\ inf_pc' = IF inputs.raised THEN "pack_raised" ELSE "model_raised"
              /\ UNCHANGED <<layer_list, nar_calls>>
           \/ /\ ~inputs.raised
              /\ \E c \in LogitChoices :
                    /\ nar_calls # <<>> => c = nar_calls[1].logits
                    /\ layer_list' = Append(layer_list, nar_decode(c, inputs, layer))
                    /\ nar_calls' = Append(nar_calls,
                           [layer |-> layer, inputs |-> inputs, logits |-> c])
              /\ inf_pc' = IF layer + 1 = NumLayers THEN "cascade_returned"
                           ELSE "cascade"
    /\ UNCHANGED <<dataset, encodec_codes>>
    /\ InfOnly

\* ground_truth_only: the target tokens of the first example, layer by layer.
GroundTruthOnly ==
    /\ inf_pc = "start"
    /\ layer_list' =
          [l \in 1..NumLayers |->
              <<[j \in DOMAIN dataset[1].tgt_encodec[l - 1] |->
                    convert_tokens_to_ids(dataset[1].tgt_encodec[l - 1][j]
                                          + (l - 1) * CodebookSize)]>>]
    /\ inf_pc' = "gt_returned"
    /\ UNCHANGED <<dataset, nar_calls, encodec_codes>>
    /\ InfOnly

\* pack_inputs handed three flat id lists: zip pairs their elements, and
\* `[bos_token_id] + instruction_ids` with an int raises TypeError as soon
\* as zip yields a triple; when one list is empty the loop body never runs
\* and pack_inputs returns empty tensors.
pack_inputs_flat_raises(instruction_ids, transcription_ids, encodec_ids) ==
    Len(instruction_ids) > 0 /\ Len(transcription_ids) > 0 /\ Len(encodec_ids) > 0

\* nar_model_only: layer 0 is the ground-truth target tokens; in the first
\* iteration pack_inputs gets flat id lists (and 1023 as the previous ids),
\* and nar_decode, which takes at most four arguments, is called with five.
NarModelOnly ==
    /\ inf_pc = "start"
    /\ layer_list' =
          << <<[j \in DOMAIN dataset[1].tgt_encodec[0] |->
                   convert_tokens_to_ids(dataset[1].tgt_encodec[0][j])]>> >>
    /\ inf_pc' =
          IF pack_inputs_flat_raises(
                 strip_ends(tokenizer_input_ids(dataset[1].instruction)),
                 strip_ends(tokenizer_input_ids(dataset[1].transcription)),
                 src_encodec_ids_list(dataset, 1)[1])
          THEN "nar_only_pack_raised"
          ELSE "nar_only_decode_raised"
    /\ UNCHANGED <<dataset, nar_calls, encodec_codes>>
    /\ InfOnly

\* ---- convert_to_encode_code

DigitChars == <<"0", "1", "2", "3", "4", "5", "6", "7", "8", "9">>

\* str(n) for n >= 0
RECURSIVE decimal(_)
decimal(n) ==
    IF n < 10 THEN <<DigitChars[n + 1]>>
    ELSE decimal(n \div 10) \o <<DigitChars[(n % 10) + 1]>>

\* The text one id decodes to, as a list of characters; a special token
\* and the prefix "v_tok_" count as one character each.  The text ids are,
\* in turn, a word (" hi"), a digit ("1") and a blank (" ").
token_text(id) ==
    IF id = bos_token_id THEN <<"<s>">>
    ELSE IF id = pad_token_id THEN <<"<pad>">>
    ELSE IF id = eos_token_id THEN <<"</s>">>
    ELSE IF id = unk_token_id THEN <<"<unk>">>
    ELSE IF id >= VTokBase THEN <<"v_tok_">> \o decimal(id - VTokBase)
    ELSE IF (id - TextToken) % 3 = 0 THEN <<" ", "h", "i">>
    ELSE IF (id - TextToken) % 3 = 1 THEN <<"1">>
    ELSE <<" ">>

\* tokenizer.batch_decode on one row: the texts of its ids, joined.
RECURSIVE batch_decode(_)
batch_decode(ids) ==
    IF ids = <<>> THEN <<>> ELSE token_text(Head(ids)) \o batch_decode(Tail(ids))

\* text.replace(old, "") for a one-character old
replace(text, old) == LET keep(ch) == ch # old IN SelectSeq(text, keep)

\* text.split("v_tok_")
RECURSIVE split(_)
split(text) ==
    IF \A k \in DOMAIN text : text[k] # "v_tok_" THEN <<text>>
    ELSE LET k == CHOOSE x \in DOMAIN text :
                      text[x] = "v_tok_" /\ \A y \in 1..(x - 1) : text[y] # "v_tok_"
         IN  <<SubSeq(text, 1, k - 1)>> \o split(SubSeq(text, k + 1, Len(text)))

\* The pieces line 189 converts: those of the decoded row, "</s>" and
\* "<pad>" removed, that are not empty.
pieces(ids) ==
    LET nonempty(piece) == Len(piece) > 0 IN
    SelectSeq(split(replace(replace(batch_decode(ids), "</s>"), "<pad>")), nonempty)

\* int(piece) raises unless the piece, blanks at its ends aside, is a
\* non-empty run of digits.
piece_raises(piece) ==
    \/ strip(piece) = <<>>
    \/ \E k \in DOMAIN strip(piece) : strip(piece)[k] \notin Range(DigitChars)

int_raises(ids) == \E k \in DOMAIN pieces(ids) : piece_raises(pieces(ids)[k])

RECURSIVE digits_value(_)
digits_value(ds) ==
    IF ds = <<>> THEN 0
    ELSE 10 * digits_value(SubSeq(ds, 1, Len(ds) - 1))
             + (CHOOSE d \in 0..9 : DigitChars[d + 1] = ds[Len(ds)])

\* int(i) - layer * 1024
code_value(piece, layer) == digits_value(strip(piece)) - layer * CodebookSize

\* Mutant: no cut.
take_mutant(s, n) == s

\* Python's s[:n]
take(s, n) == SubSeq(s, 1, IF n < Len(s) THEN n ELSE Len(s))

convert_to_encode_code(layer_lists) ==
    LET batch_size == Len(layer_lists[1])
        codes(i, l) ==
            [k \in DOMAIN pieces(layer_lists[l + 1][i]) |->
                code_value(pieces(layer_lists[l + 1][i])[k], l)]
        raised == \E i \in 1..batch_size : \E l \in 0..(Len(layer_lists) - 1) :
                      int_raises(layer_lists[l + 1][i])
    IN  [raised |-> raised,
         codes |-> IF raised THEN <<>>
                   ELSE [i \in 1..batch_size |->
                           [l1 \in 1..Len(layer_lists) |->
                               take(codes(i, l1 - 1), Len(codes(i, 0)))]]]

Convert ==
    /\ inf_pc \in {"gt_returned", "cascade_returned"}
    /\ LET r == convert_to_encode_code(layer_list) IN
        /\ encodec_codes' = IF r.raised THEN <<>> ELSE r.codes
        /\ inf_pc' = IF r.raised THEN "convert_raised"
                     ELSE IF inf_pc = "gt_returned" THEN "gt_converted"
                     ELSE "cascade_converted"
    /\ UNCHANGED <<dataset, layer_list, nar_calls>>
    /\ InfOnly

InitInfer ==
    /\ dataset \in Datasets
    /\ layer_list = <<>> /\ nar_calls = <<>> /\ encodec_codes = <<>>
    /\ inf_pc = "start"
    /\ ParaIdle /\ PadIdle /\ PrepIdle

NextInfer == CascadeAR \/ NarStep \/ GroundTruthOnly \/ NarModelOnly \/ Convert

SpecInfer == InitInfer /\ [][NextInfer]_vars

\* ---- claims about the inference chain

CascadePcs == {"cascade", "cascade_returned", "cascade_converted", "convert_raised"}

\* The output of the nar_decode call nar_calls[k].
CallOutput(k) == layer_list[nar_calls[k].layer + 1]

\* C7 as stated: every id nar_decode returns for layer l lies in
\* [id(v_tok_{1024 l}), id(v_tok_{1024 l + 1024})), whatever the logits are.
C7_ArgmaxInRange ==
    \A k \in DOMAIN nar_calls :
        /\ nar_calls[k].layer \in 1..(NumLayers - 1)
        /\ \A b \in DOMAIN CallOutput(k) : \A p \in DOMAIN CallOutput(k)[b] :
               InRange(CallOutput(k)[b][p], nar_calls[k].layer)

\* The last layer decoded from logits that are -inf over the whole range at
\* the first position: the masked row is all -inf there and the argmax is
\* index 0, the id of <s>; the other positions are decoded inside the range.
C7_Witness ==
    \E k \in DOMAIN nar_calls :
        /\ nar_calls[k].layer = NumLayers - 1
        /\ nar_calls[k].logits = "neg"
        /\ \E b \in DOMAIN CallOutput(k) :
               /\ CallOutput(k)[b][1] = bos_token_id
               /\ \E p \in DOMAIN CallOutput(k)[b] :
                      InRange(CallOutput(k)[b][p], nar_calls[k].layer)

\* C8: every code convert_to_encode_code emits, for every item and each of
\* the 8 layers, lies in [0, 1024).
C8_CodesInCodebook ==
    inf_pc \in {"gt_converted", "cascade_converted"} =>
        \A i \in DOMAIN encodec_codes :
            /\ Len(encodec_codes[i]) = NumLayers
            /\ \A l \in DOMAIN encodec_codes[i] :
                   \A k \in DOMAIN encodec_codes[i][l] :
                       encodec_codes[i][l][k] \in 0..(CodebookSize - 1)

\* Codes of a cascade whose last layer was decoded and is not empty.
C8_Witness ==
    /\ inf_pc = "cascade_converted"
    /\ \E i \in DOMAIN encodec_codes : Len(encodec_codes[i][NumLayers]) > 1
    /\ \E k \in DOMAIN nar_calls : nar_calls[k].logits = "out"

\* C9: layer 0 is the AR prediction; NAR call k decodes layer k, its decoder
\* input is the output of layer k-1 without pad tokens (padded again to
\* max_length) and its encoder input carries the source tokens of layer k;
\* cascade_ar_nar returns 8 layers after 7 calls.
C9_CascadeChain ==
    inf_pc \in CascadePcs =>
        /\ Len(layer_list) = Len(nar_calls) + 1
        /\ \E body \in ArBodies(MaxLength) :
               layer_list[1] = slice_2_m1(generate(body, Len(dataset), MaxLength))
        /\ \A k \in DOMAIN nar_calls :
               /\ nar_calls[k].layer = k
               /\ layer_list[k + 1] = nar_decode(nar_calls[k].logits,
                                                 nar_calls[k].inputs, k)
               /\ \A b \in DOMAIN dataset :
                      /\ nar_calls[k].inputs.decoder_input_ids[b] =
                             remove_pad(layer_list[k][b])
                                 \o Repeat(pad_token_id,
                                      MaxLength - Len(remove_pad(layer_list[k][b])))
                      /\ nar_calls[k].inputs.input_ids[b] =
                             LET ids == <<bos_token_id>> \o dataset[b].instruction
                                     \o <<sep_token_id>> \o dataset[b].transcription
                                     \o <<sep_token_id>>
                                     \o [j \in DOMAIN dataset[b].src_encodec[k] |->
                                            VTokBase + dataset[b].src_encodec[k][j]
                                                + k * CodebookSize]
                                     \o <<eos_token_id>>
                             IN  ids \o Repeat(pad_token_id, MaxLength - Len(ids))
        /\ inf_pc # "cascade" => Len(layer_list) = NumLayers

\* A returned cascade over two examples whose AR rows held padding.
C9_Witness ==
    /\ inf_pc = "cascade_returned"
    /\ Len(dataset) = 2
    /\ \E b \in DOMAIN dataset : pad_token_id \in Range(layer_list[1][b])
    /\ \E b \in DOMAIN dataset : Len(dataset[b].src_encodec[1]) > 1

NarOnlyPcs == {"nar_only_pack_raised", "nar_only_decode_raised", "nar_only_returned"}

\* C15: nar_model_only returns 8 layers without raising: layer 0 the
\* ground-truth target tokens, layers 1..7 decoded in increasing order.
C15_NarOnlyReturns ==
    inf_pc \in NarOnlyPcs =>
        /\ inf_pc = "nar_only_returned"
        /\ Len(layer_list) = NumLayers

\* nar_model_only has run on a dataset whose first example has codes, and
\* got past pack_inputs.
C15_Witness ==
    /\ inf_pc = "nar_only_decode_raised"
    /\ Len(layer_list) = 1 /\ layer_list[1][1] # <<>>
    /\ dataset[1].src_encodec[1] # <<>>

\* The number of layer-0 codes of item i: the numbers in the text of its
\* layer-0 row.
Layer0Codes(i) == Len(pieces(layer_list[1][i]))

\* C16: for every item convert_to_encode_code returns 8 code lists, each as
\* long as the item has layer-0 codes.
C16_Rectangular ==
    inf_pc \in {"gt_converted", "cascade_converted"} =>
        /\ Len(encodec_codes) = Len(layer_list[1])
        /\ \A i \in DOMAIN encodec_codes :
               /\ Len(encodec_codes[i]) = NumLayers
               /\ \A l \in 1..NumLayers :
                      Len(encodec_codes[i][l]) = Layer0Codes(i)

\* Codes of a cascade over two items with different numbers of layer-0
\* codes, the layers above decoded at every position of max_length.
C16_Witness ==
    /\ inf_pc = "cascade_converted"
    /\ Len(encodec_codes) = 2
    /\ Layer0Codes(1) > Layer0Codes(2) /\ Layer0Codes(2) > 0
    /\ Len(layer_list[NumLayers][1]) > Layer0Codes(1)


\* ================================================================ SpecPrep
\* trainer_encodec_se_vc.py: process_data_to_model_inputs

max_length == 5     \* stands for max_length = 1023
MaxBatch == 2       \* examples per batch

\* An example whose source and target codes have their own lengths.
PrepExample(ilen, ns, nt, c) ==
    [instruction |-> Repeat(TextToken, ilen),
     transcription |-> <<>>,
     src_encodec |-> [l \in 0..(NumLayers - 1) |-> IF ns = 0 THEN <<>> ELSE Codes(ns, c, l)],
     tgt_encodec |-> [l \in 0..(NumLayers - 1) |-> IF nt = 0 THEN <<>> ELSE Codes(nt, c + 1, 2 * l)]]

\* Examples on both sides of the two length filters.
PrepExamples ==
    {PrepExample(ilen, ns, nt, 0) :
        ilen \in {0, 1}, ns \in {0, 1, max_length - 3}, nt \in {1, max_length + 1}}

PrepBatches == SeqsUpTo(PrepExamples, MaxBatch)

\* convert_tokens_to_ids([f"v_tok_{u + i * 1024}" for u in codes])
v_tok_ids(codes, i) ==
    [j \in DOMAIN codes |-> convert_tokens_to_ids(codes[j] + i * CodebookSize)]

\* accumulate_tgt_encodec_ids after the append of iteration i: layers 0..i-1
accumulate_tgt_encodec_ids(ex, i) ==
    [j \in 1..i |-> v_tok_ids(ex.tgt_encodec[j - 1], j - 1)]

prep_encoder_input_ids(ex, i) ==
    encoder_input_ids(strip_ends(tokenizer_input_ids(ex.instruction)),
                      strip_ends(tokenizer_input_ids(ex.transcription)),
                      v_tok_ids(ex.src_encodec[i], i))

\* `# Filter inputs`: the pair (b, i) is skipped
filtered(ex, i) ==
    \/ Len(prep_encoder_input_ids(ex, i)) > max_length
    \/ Len(accumulate_tgt_encodec_ids(ex, i)[1]) > max_length

\* The (b, i) pairs of the two loops, in order, that pass the filter.
RECURSIVE kept_pairs(_, _, _, _)
kept_pairs(bt, levels, b, i) ==
    IF b > Len(bt) THEN <<>>
    ELSE IF i > levels THEN kept_pairs(bt, levels, b + 1, 1)
    ELSE (IF filtered(bt[b], i) THEN <<>> ELSE << <<b, i>> >>)
             \o kept_pairs(bt, levels, b, i + 1)

\* Mutant: the current layer is accumulated too.
decoder_rows_mutant(ex, i) ==
    accumulate_tgt_encodec_ids(ex, i + 1)
        \o [k \in 1..(7 - i - 1) |-> Repeat(pad_token_id, max_length)]

\* Mutant: the label is appended before the filter, for every pair.
label_pairs_mutant(kept, bt, levels) ==
    [k \in 1..(Len(bt) * levels) |->
        <<((k - 1) \div levels) + 1, ((k - 1) % levels) + 1>>]

\* labels.append is reached for the pairs that input_ids.append and
\* decoder_input_ids.append are reached for.
label_pairs(kept, bt, levels) == kept

\* accumulate_tgt_encodec_ids + zeros
decoder_rows(ex, i) ==
    accumulate_tgt_encodec_ids(ex, i)
        \o [k \in 1..(7 - i) |-> Repeat(pad_token_id, max_length)]

\* The two asserts of the try block, and decoder_input_ids[0] on an empty list.
length_check(input_ids, decoder_input_ids, decoder_attention_mask) ==
    IF ~(Len(decoder_attention_mask) = Len(decoder_input_ids)
         /\ Len(decoder_input_ids) = Len(input_ids))
    THEN "AssertionError"
    ELSE IF Len(decoder_input_ids) = 0 THEN "IndexError"
    ELSE IF Len(decoder_input_ids[1]) # 7 THEN "AssertionError"
    ELSE "ok"

\* Mutant: a handler for the assertion only.
caught_mutant(exc) == exc = "AssertionError"

\* The bare `except:` catches whatever the try block raised.
caught(exc) == TRUE

EmptyBatch ==
    [input_ids |-> <<>>, attention_mask |-> <<>>, decoder_input_ids |-> <<>>,
     decoder_attention_mask |-> <<>>, labels |-> <<>>]

process_data_to_model_inputs(bt, levels) ==
    LET kept == kept_pairs(bt, levels, 1, 1)
        ex(k) == bt[kept[k][1]]
        lvl(k) == kept[k][2]
        enc == pad_sequences_and_create_masks(
                   [k \in DOMAIN kept |-> prep_encoder_input_ids(ex(k), lvl(k))],
                   max_length, pad_token_id)
        decoder_input_ids ==
            [k \in DOMAIN kept |->
                pad_sequences_and_create_masks(decoder_rows(ex(k), lvl(k)),
                                               max_length, pad_token_id)[1]]
        dec == pad_sequences_and_create_masks(
                   [k \in DOMAIN kept |-> decoder_input_ids[k][1]],
                   max_length, pad_token_id)
        lab == label_pairs(kept, bt, levels)
        labels == pad_sequences_and_create_masks(
                      [k \in DOMAIN lab |->
                          v_tok_ids(bt[lab[k][1]].tgt_encodec[lab[k][2]],
                                    lab[k][2])],
                      max_length, -100)[1]
        exc == length_check(enc[1], decoder_input_ids, dec[2])
    IN  [trace |-> [kept |-> kept, check |-> exc],
         raised |-> exc # "ok" /\ ~caught(exc),
         out |-> IF exc # "ok"
                 THEN EmptyBatch
                 ELSE [input_ids |-> enc[1], attention_mask |-> enc[2],
                       decoder_input_ids |-> decoder_input_ids,
                       decoder_attention_mask |-> dec[2],
                       labels |-> labels]]

Process ==
    /\ prep_pc = "ready"
    /\ \E levels \in 1..7 :
        LET r == process_data_to_model_inputs(batch, levels) IN
        /\ n_level' = levels
        /\ prep_trace' = r.trace
        /\ prep_out' = IF r.raised THEN <<>> ELSE r.out
        /\ prep_pc' = IF r.raised THEN "raised" ELSE "returned"
    /\ UNCHANGED batch
    /\ UNCHANGED <<paraVars, padVars, infVars>>

InitPrep ==
    /\ batch \in PrepBatches
    /\ n_level = 0 /\ prep_trace = <<>> /\ prep_out = <<>> /\ prep_pc = "ready"
    /\ ParaIdle /\ PadIdle /\ InfIdle

NextPrep == Process

SpecPrep == InitPrep /\ [][NextPrep]_vars

\* ---- claims about the NAR preprocessing

\* C10: the call never raises, and whenever the length check does not pass
\* (in particular when every example was filtered out) the five fields of
\* the returned batch are empty lists.
C10_SoftFail ==
    prep_pc \in {"returned", "raised"} =>
        /\ prep_pc = "returned"
        /\ (prep_trace.check # "ok" \/ prep_trace.kept = <<>>) =>
               prep_out = EmptyBatch

\* A batch of examples all filtered out, processed with several layers.
C10_Witness ==
    /\ prep_pc = "returned"
    /\ Len(batch) = MaxBatch /\ n_level > 1
    /\ prep_trace.kept = <<>>
    /\ prep_out = EmptyBatch

\* The tokens of layer l of a list of codes, written out from the batch.
LayerTokens(codes, l) ==
    [j \in DOMAIN codes |-> VTokBase + codes[j] + l * CodebookSize]

\* The encoder input of example b at layer i, written out from the batch.
EncoderOf(b, i) ==
    <<bos_token_id>> \o batch[b].instruction \o <<sep_token_id>>
        \o batch[b].transcription \o <<sep_token_id>>
        \o LayerTokens(batch[b].src_encodec[i], i) \o <<eos_token_id>>

\* The pair (b, i) passes the length filter.
Passes(b, i) ==
    /\ Len(EncoderOf(b, i)) <= max_length
    /\ Len(batch[b].tgt_encodec[0]) <= max_length

PairLess(p, q) == p[1] < q[1] \/ (p[1] = q[1] /\ p[2] < q[2])

PadTo(ids, v) == ids \o Repeat(v, max_length - Len(ids))

\* C13: a returned non-empty batch has the same number of rows in its five
\* fields, one per (example, layer) pair that passed the filter, in loop
\* order, and row k of every field is built from pair k.
C13_RowsAligned ==
    (prep_pc = "returned" /\ prep_out # EmptyBatch) =>
        LET kept == prep_trace.kept IN
        /\ \A k \in DOMAIN kept :
               /\ kept[k][1] \in DOMAIN batch /\ kept[k][2] \in 1..n_level
               /\ Passes(kept[k][1], kept[k][2])
               /\ k > 1 => PairLess(kept[k - 1], kept[k])
        /\ \A b \in DOMAIN batch : \A i \in 1..n_level :
               Passes(b, i) => \E k \in DOMAIN kept : kept[k] = <<b, i>>
        /\ Len(prep_out.input_ids) = Len(kept)
        /\ Len(prep_out.attention_mask) = Len(kept)
        /\ Len(prep_out.decoder_input_ids) = Len(kept)
        /\ Len(prep_out.decoder_attention_mask) = Len(kept)
        /\ Len(prep_out.labels) = Len(kept)
        /\ \A k \in DOMAIN kept :
               LET b == kept[k][1]
                   i == kept[k][2]
               IN  /\ prep_out.input_ids[k] = PadTo(EncoderOf(b, i), pad_token_id)
                   /\ DOMAIN prep_out.attention_mask[k] = DOMAIN prep_out.input_ids[k]
                   /\ \A p \in DOMAIN prep_out.input_ids[k] :
                          prep_out.attention_mask[k][p] = 1
                              <=> prep_out.input_ids[k][p] # pad_token_id
                   /\ prep_out.decoder_input_ids[k][1] =
                          PadTo(LayerTokens(batch[b].tgt_encodec[0], 0), pad_token_id)
                   /\ prep_out.decoder_input_ids[k][i] =
                          PadTo(LayerTokens(batch[b].tgt_encodec[i - 1], i - 1),
                                pad_token_id)
                   /\ DOMAIN prep_out.decoder_attention_mask[k]
                          = DOMAIN prep_out.decoder_input_ids[k][1]
                   /\ \A p \in DOMAIN prep_out.decoder_attention_mask[k] :
                          prep_out.decoder_attention_mask[k][p] = 1
                              <=> prep_out.decoder_input_ids[k][1][p] # pad_token_id
                   /\ prep_out.labels[k] =
                          PadTo(LayerTokens(batch[b].tgt_encodec[i], i), -100)

\* A batch whose first example was filtered out and whose second was kept
\* at several layers.
C13_Witness ==
    /\ prep_pc = "returned" /\ prep_out # EmptyBatch
    /\ Len(batch) = 2 /\ n_level > 1
    /\ Len(prep_out.labels) = n_level
    /\ prep_trace.kept[1] = <<2, 1>>

\* C14: every emitted decoder input has 7 rows of max_length elements; for
\* the pair (b, i) rows 0..i-1 are the padded target tokens of layers
\* 0..i-1 and rows i..6 are pad tokens, the label is the target tokens of
\* layer i, and no token of layer i's range is in the decoder input.
C14_DecoderRows ==
    (prep_pc = "returned" /\ prep_out # EmptyBatch) =>
        \A k \in DOMAIN prep_out.decoder_input_ids :
            LET b == prep_trace.kept[k][1]
                i == prep_trace.kept[k][2]
                d == prep_out.decoder_input_ids[k]
            IN  /\ Len(d) = 7
                /\ \A r \in 1..7 : Len(d[r]) = max_length
                /\ \A r \in 1..i :
                       d[r] = PadTo(LayerTokens(batch[b].tgt_encodec[r - 1], r - 1),
                                    pad_token_id)
                /\ \A r \in (i + 1)..7 : d[r] = Repeat(pad_token_id, max_length)
                /\ prep_out.labels[k] =
                       PadTo(LayerTokens(batch[b].tgt_encodec[i], i), -100)
                /\ \A r \in 1..7 : \A p \in DOMAIN d[r] : ~InRange(d[r][p], i)

\* An example kept at layers 1..7: the last decoder input has no pad row.
C14_Witness ==
    /\ prep_pc = "returned" /\ n_level = 7
    /\ Len(prep_out.decoder_input_ids) >= 7
    /\ \E k \in DOMAIN prep_out.decoder_input_ids :
           /\ prep_trace.kept[k][2] = 7
           /\ \A r \in 1..7 : prep_out.decoder_input_ids[k][r][1] # pad_token_id
    /\ \E k \in DOMAIN prep_out.decoder_input_ids :
           /\ prep_trace.kept[k][2] = 1
           /\ prep_out.decoder_input_ids[k][2][1] = pad_token_id

=============================================================================
